---- MODULE Spec2Model ----
(***************************************************************************)
(* Job orchestration of worker-comfyui.                                    *)
(*                                                                         *)
(* Two orchestrators live in the repository and both are modelled:         *)
(*   impl = "service" : ComfyUIService.process_job   (src/service.py)      *)
(*   impl = "gcp"     : run_workflow_and_get_images                        *)
(*                      (src/gcp_migration_ata/main.py)                    *)
(* One run of one orchestrator is a behaviour of the model.  Every         *)
(* blocking call of the code (HTTP request, stream handshake, recv, sleep) *)
(* is one step; the backend and the stream are the environment.            *)
(***************************************************************************)
EXTENDS Integers, Sequences, FiniteSets, TLC

\* ------------------------------------------------------------------ bounds
\* Largest number of input assets of a request.
MaxImages == 3
\* Largest number of artifact references listed by an execution history.
MaxArtifacts == 3
\* The retries argument of check_server (COMFY_API_AVAILABLE_MAX_RETRIES, 500, in the
\* code's calls).
MaxRetries == 2
\* Frames the stream may hold that the client has not read yet.
MaxInflight == 1
\* Reconnect handshakes of one reconnection (environment WEBSOCKET_RECONNECT_ATTEMPTS).
WEBSOCKET_RECONNECT_ATTEMPTS == 2
\* Probes of start_comfyui before it gives up (max_retries, 120 in the code).
MaxStartRetries == 2
\* Calls of validate_input made on one input.
MaxCalls == 2
\* Calls of the function app (gcp) that run at the same time.
MaxHandlers == 2
\* Images carried by the body of one POST /predict.
MaxPredictImages == 1
\* Times the stream may drop during one job: one more than the reconnect budget.
MaxDrops == WEBSOCKET_RECONNECT_ATTEMPTS + 1

\* --------------------------------------------------------------- constants
WEBSOCKET_RECONNECT_DELAY_S == 3

\* Job identifiers the backend hands out; OwnJob is the one this submission gets.
JobIds == {"p1", "p2"}
OwnJob == "p1"
NoId == "none"
\* str(uuid.uuid4()): the n-th identifier drawn; two draws never agree.
uuid4(n) == <<"uuid", n>>
\* client_id = str(uuid.uuid4()), the only draw of a run.
ClientIds == {uuid4(1)}

\* ws_url = f"ws://{COMFY_HOST}/ws?clientId={client_id}"
ws_url_of(cid) == <<"ws", "127.0.0.1:8188", "/ws?clientId=", cid>>

\* ------------------------------------------------------------------ frames
\* A frame as ws.recv() returns it.
\*   str    : a text frame (FALSE: bytes, e.g. a binary preview)
\*   empty  : the empty string (recv's answer to a control frame)
\*   bad    : recv itself raises on it (protocol or payload error)
\*   json   : json.loads accepts the payload
\*   fields : the keys present, of "type", "data", data."node", data."prompt_id"
\*   type, node, pid : the values under those keys
Frame(s, e, b, j, f, t, n, p) ==
    [str |-> s, empty |-> e, bad |-> b, json |-> j, fields |-> f, type |-> t, node |-> n, pid |-> p]

AllFields == {"type", "data", "node", "prompt_id"}
Json(t, n, p) == Frame(TRUE, FALSE, FALSE, TRUE, AllFields, t, n, p)

Completion(p)     == Json("executing", "null", p)
NodeStarted(p)    == Json("executing", "n1", p)
ExecutionError(p) == Json("execution_error", "n1", p)
Executed(p)       == Json("executed", "n1", p)
StatusFrame       == Frame(TRUE, FALSE, FALSE, TRUE, {"type", "data"}, "status", "null", NoId)
NotJson           == Frame(TRUE, FALSE, FALSE, FALSE, {}, "", "null", NoId)
NoType            == Frame(TRUE, FALSE, FALSE, TRUE, {"data"}, "", "null", NoId)
NoData            == Frame(TRUE, FALSE, FALSE, TRUE, {"type"}, "executing", "null", NoId)
NoNode            == Frame(TRUE, FALSE, FALSE, TRUE, {"type", "data", "prompt_id"}, "executing", "null", OwnJob)
NoPromptId        == Frame(TRUE, FALSE, FALSE, TRUE, {"type", "data", "node"}, "executing", "null", NoId)
EmptyFrame        == Frame(TRUE, TRUE, FALSE, FALSE, {}, "", "null", NoId)
BinaryFrame       == Frame(FALSE, FALSE, FALSE, FALSE, {}, "", "null", NoId)
BadFrame          == Frame(TRUE, FALSE, TRUE, FALSE, {}, "", "null", NoId)

\* Frames whose shape the monitor does not recognise.
Unrecognized == {StatusFrame, NotJson, NoType, NoData, NoNode, NoPromptId, BinaryFrame}
\* Frames about another job that shares the stream.
OtherJobFrames ==
    UNION {{Completion(p), NodeStarted(p), ExecutionError(p), Executed(p)} : p \in JobIds \ {OwnJob}}
\* What the environment may put on the stream at any time.
EnvFrames == Unrecognized \cup OtherJobFrames \cup {EmptyFrame, BadFrame}
\* What the backend emits about the job while it runs.
ProgressFrames == {NodeStarted(OwnJob), Executed(OwnJob)}

VARIABLES
    impl,        \* which orchestrator runs
    job_input,   \* the request
    pc,          \* position of the orchestrator
    result,      \* what the orchestrator returned
    probes,      \* check_server: probes issued so far (a local, gone when it returns True)
    sleeps,      \* check_server: sleeps so far (likewise)
    uploadLog,   \* per input asset, in order: the outcome of its upload
    client_id,   \* the run's uuid
    prompt_id,   \* queue_result["prompt_id"]
    backend,     \* the backend's view of the job: idle, running, done, failed
    handles,     \* every stream handle connected during the run, by status
    ws,          \* index in handles of the variable ws (0: unbound)
    inflight,    \* frames sent on the stream and not yet read
    drops,       \* times the stream dropped
    attempt,     \* loop variable of _attempt_websocket_reconnect
    rlog,        \* events of the current reconnection: sleeps and handshakes
    reconnects,  \* reconnect handshakes issued during the run
    openLog,     \* url of the initial handshake (<<>> before it)
    sawCompletion, \* the completion notification of the job was read
    history,     \* -1: not queried; -2: queried, the job's record was not obtained;
                 \* else the number of artifacts the job's record lists
    fetchLog,    \* per artifact, in order: the outcome of its fetch
    sink,        \* configured sinks: [gcs: BOOLEAN, s3: BOOLEAN]
    calls,       \* kinds of request issued so far during the run
    \* src/main.py: the process-wide AppState and what the routes answered
    comfy_service, \* state.comfy_service is set
    comfy_ready,   \* state.comfy_ready
    comfy_process, \* state.comfy_process: none, running, terminated
    startup,       \* the thread of start_comfyui: its position and loop index
    response,      \* the answer to the latest request (none while it is in progress)
    \* service.py validate_input called on its own
    validated,     \* what the calls made so far returned, in order
    \* src/gcp_migration_ata/main.py: the function app and its module global
    flask_response, \* globals()['flask_response']
    handler        \* per concurrent call of app: its position and what it returned

jobVars == <<impl, job_input, pc, result, probes, sleeps, uploadLog, client_id, prompt_id,
          backend, handles, ws, inflight, drops, attempt, rlog, reconnects, openLog,
          sawCompletion, history, fetchLog, sink, calls>>
appVars == <<comfy_service, comfy_ready, comfy_process, startup, response>>
flaskVars == <<flask_response, handler>>
\* What a run of the orchestrator leaves alone.
outside == <<appVars, validated, flaskVars>>
vars == <<jobVars, outside>>

\* ------------------------------------------------------------------ inputs
\* An entry of job_input["images"]: a mapping with both fields and a decodable
\* payload, one whose payload base64 cannot decode, a non-mapping, or a mapping
\* that lacks a field.
ImageKinds == {"ok", "badb64", "notdict", "noname", "noimage"}
ImageLists(kinds) == UNION {[1..n -> kinds] : n \in 0..MaxImages}

Input(k, hw, wd, hi, il, imgs) ==
    [kind |-> k, hasWorkflow |-> hw, workflowIsDict |-> wd, hasImages |-> hi,
     imagesIsList |-> il, images |-> imgs]

\* Requests POST /predict can hand to process_job.
ServiceInputs ==
    {Input("none", FALSE, FALSE, FALSE, FALSE, <<>>),
     Input("notdict", FALSE, FALSE, FALSE, FALSE, <<>>),
     Input("dict", FALSE, FALSE, FALSE, FALSE, <<>>),
     Input("dict", TRUE, FALSE, FALSE, FALSE, <<>>),
     Input("dict", TRUE, TRUE, FALSE, FALSE, <<>>),
     Input("dict", TRUE, TRUE, TRUE, FALSE, <<>>)}
    \cup {Input("dict", TRUE, TRUE, TRUE, TRUE, imgs) : imgs \in ImageLists(ImageKinds)}

\* RequestBody instances (pydantic has checked the shape): images is None or a
\* list of ImageInput.
GcpInputs ==
    {Input("dict", TRUE, TRUE, FALSE, FALSE, <<>>)}
    \cup {Input("dict", TRUE, TRUE, TRUE, TRUE, imgs) : imgs \in ImageLists({"ok", "badb64"})}

IsBadShape(img) == img \in {"notdict", "noname", "noimage"}

\* Index of the first entry of imgs the loop of validate_input rejects (0: none).
FirstBad(imgs) ==
    LET bad == {i \in 1..Len(imgs) : IsBadShape(imgs[i])}
    IN  IF bad = {} THEN 0 ELSE CHOOSE i \in bad : \A j \in bad : i <= j

\* validate_input without the check of lines 107-108 for the fields of an image.
validate_input_no_field_check(inp) ==
    IF inp.kind = "none" THEN "Please provide input"
    ELSE IF inp.kind # "dict" THEN "Input must be a dictionary"
    ELSE IF ~inp.hasWorkflow THEN "Missing 'workflow' parameter"
    ELSE IF ~inp.workflowIsDict THEN "'workflow' must be a dictionary"
    ELSE IF inp.hasImages /\ ~inp.imagesIsList THEN "'images' must be a list"
    ELSE IF inp.hasImages /\ \E i \in 1..Len(inp.images) : inp.images[i] = "notdict"
         THEN "Image must be a dictionary"
    ELSE ""

\* validate_input: the error message, "" when the input is accepted.
validate_input(inp) ==
    IF inp.kind = "none" THEN "Please provide input"
    ELSE IF inp.kind # "dict" THEN "Input must be a dictionary"
    ELSE IF ~inp.hasWorkflow THEN "Missing 'workflow' parameter"
    ELSE IF ~inp.workflowIsDict THEN "'workflow' must be a dictionary"
    ELSE IF inp.hasImages /\ ~inp.imagesIsList THEN "'images' must be a list"
    ELSE IF inp.hasImages /\ FirstBad(inp.images) # 0
         THEN IF inp.images[FirstBad(inp.images)] = "notdict"
              THEN "Image must be a dictionary"
              ELSE "Image must have 'name' and 'image' fields"
    ELSE ""

\* ----------------------------------------------------------------- results
\* A result: status "none" while the orchestrator runs; raised tells an exception
\* that left the function from a value it returned.
NoResult == [status |-> "none", error |-> "", images |-> <<>>, errors |-> <<>>, hasErrors |-> FALSE,
             prompt_id |-> NoId, raised |-> FALSE]
\* {"error": ...} of process_job.
Error(e) == [status |-> "error", error |-> e, images |-> <<>>, errors |-> <<>>, hasErrors |-> FALSE,
             prompt_id |-> NoId, raised |-> FALSE]
\* An exception that leaves the orchestrator.
Raised(e) == [status |-> "error", error |-> e, images |-> <<>>, errors |-> <<>>, hasErrors |-> FALSE,
              prompt_id |-> NoId, raised |-> TRUE]
\* service.py: {"status": "success", "prompt_id", "images", "outputs"}
Success(imgs) == [status |-> "success", error |-> "", images |-> imgs, errors |-> <<>>,
                  hasErrors |-> FALSE, prompt_id |-> prompt_id, raised |-> FALSE]
\* gcp: {"images": [...]} with "errors" only when there are any
GcpSuccess(imgs, errs) ==
    [status |-> "success", error |-> "", images |-> imgs, errors |-> errs, hasErrors |-> errs # <<>>,
     prompt_id |-> NoId, raised |-> FALSE]

\* The locals of an orchestrator that has not started.
Fresh ==
    /\ result = NoResult
    /\ probes = 0
    /\ sleeps = 0
    /\ uploadLog = <<>>
    /\ client_id = NoId
    /\ prompt_id = NoId
    /\ backend = "idle"
    /\ handles = <<>>
    /\ ws = 0
    /\ inflight = <<>>
    /\ drops = 0
    /\ attempt = 0
    /\ rlog = <<>>
    /\ reconnects = 0
    /\ openLog = <<>>
    /\ sawCompletion = FALSE
    /\ history = -1
    /\ fetchLog = <<>>
    /\ calls = {}

\* AppState once start_comfyui has seen the backend answer: the state in which
\* jobs run.
NoAnswer == [code |-> 0, status |-> "", error |-> "", result |-> NoResult]
AppServing ==
    /\ comfy_service = TRUE
    /\ comfy_ready = TRUE
    /\ comfy_process = "running"
    /\ startup = [pc |-> "ready", i |-> 0, last |-> "200"]
    /\ response = NoAnswer

\* No call of validate_input on its own, no call of the function app.
Handlers == 1..MaxHandlers
NoHandler == [pc |-> "idle", status |-> 0, loaded |-> <<>>, returned |-> <<>>]
Quiet ==
    /\ validated = <<>>
    /\ flask_response = <<>>
    /\ handler = [r \in Handlers |-> NoHandler]

\* No orchestrator is running: i names the implementation the process serves.
NoSink == [gcs |-> FALSE, s3 |-> FALSE]
NoInput == Input("none", FALSE, FALSE, FALSE, FALSE, <<>>)
JobIdle(i) ==
    /\ impl = i
    /\ job_input = NoInput
    /\ pc = "idle"
    /\ Fresh
    /\ sink = NoSink

\* One run of an orchestrator, entered with any request.
Init ==
    /\ AppServing
    /\ Quiet
    /\ impl \in {"service", "gcp"}
    /\ job_input \in (IF impl = "service" THEN ServiceInputs ELSE GcpInputs)
    /\ pc = (IF impl = "service" THEN "validate" ELSE "check_server")
    /\ Fresh
    /\ sink \in (IF impl = "service"
                 THEN {[gcs |-> FALSE, s3 |-> FALSE]}
                 ELSE [gcs : BOOLEAN, s3 : BOOLEAN])

\* return: the orchestrator ends with result r.
Return(r) == /\ result' = r
             /\ pc' = "done"

\* catches_exception without the except clause around the body.
catches_nothing == FALSE

\* Whether the orchestrator catches an exception raised in its body: the
\* except Exception of service.py line 402 turns it into {"error": "Job
\* processing failed: ..."}; run_workflow_and_get_images has only a finally clause.
catches_exception == impl = "service"

\* raise: an exception propagates out of a statement of the body.
Raise(e) == Return(IF catches_exception THEN Error(e) ELSE Raised(e))

\* A failure that service.py returns as {"error": ...} and gcp raises.
Fail(e) == IF impl = "service" THEN Return(Error(e)) ELSE Raise(e)

\* -------------------------------------------------------------- validation
\* process_job, lines 293-295.
Validate ==
    /\ impl = "service" /\ pc = "validate"
    /\ IF validate_input(job_input) # ""
       THEN Return(Error("validation"))
       ELSE pc' = "check_server" /\ result' = result
    /\ UNCHANGED <<outside, calls, impl, job_input, probes, sleeps, uploadLog, client_id, prompt_id, backend,
                   handles, ws, inflight, drops, attempt, rlog, reconnects, openLog,
                   sawCompletion, history, fetchLog, sink>>

\* --------------------------------------------------------------- readiness
HttpOutcomes == {"200", "500", "exc"}

\* The images the upload step iterates over ("images" absent or None: none).
InputImages == IF job_input.hasImages THEN job_input.images ELSE <<>>

\* Where the orchestrator goes once the server answered.
AfterReady ==
    IF impl = "service"
    THEN IF job_input.hasImages /\ Len(job_input.images) > 0 THEN "upload" ELSE "queue"
    ELSE IF Len(InputImages) > 0 THEN "upload" ELSE "connect"

\* more_probes with a loop that runs one iteration more than retries.
more_probes_one_more(n) == n < MaxRetries + 1

\* for i in range(retries): whether an iteration follows the n-th probe.
more_probes(n) == n < MaxRetries

\* One iteration of check_server: a GET, then a sleep unless the code skips it.
\* service.py sleeps between probes only; gcp sleeps after every failed probe.
\* The counters are those of the running call: they end with a return of True
\* and stay as they are when the call gives up.
check_server(resp) ==
    /\ pc = "check_server"
    /\ IF resp = "200"
       THEN /\ pc' = AfterReady
            /\ probes' = 0
            /\ sleeps' = 0
            /\ result' = result
       ELSE /\ probes' = probes + 1
            /\ sleeps' = IF impl = "gcp" \/ probes + 1 < MaxRetries
                         THEN sleeps + 1 ELSE sleeps
            /\ IF more_probes(probes + 1)
               THEN UNCHANGED <<pc, result>>
               ELSE Fail("not_available")
    /\ calls' = calls \cup {"probe"}
    /\ UNCHANGED <<outside, impl, job_input, uploadLog, client_id, prompt_id, backend,
                   handles, ws, inflight, drops, attempt, rlog, reconnects, openLog,
                   sawCompletion, history, fetchLog, sink>>

\* ------------------------------------------------------------------ upload
\* The outcome of one iteration of the upload loop: base64.b64decode raises on
\* an undecodable payload before any request is made; otherwise the POST answers.
UploadOutcomes(img) == IF img = "badb64" THEN {"decode_error"} ELSE HttpOutcomes

\* Whether the loop goes on to the next asset after an outcome: service.py
\* records the failure and continues, gcp raises RuntimeError out of the loop.
upload_continues(outcome) == impl = "service" \/ outcome = "200"

\* failed_uploads counting only the answers with a failure status, not the
\* iterations that raised.
failed_uploads_status_only(log) == {i \in 1..Len(log) : log[i] = "500"}

\* failed_uploads of service.py, lines 188-194.
failed_uploads(log) == {i \in 1..Len(log) : log[i] # "200"}

\* One iteration of upload_images, and the caller's check once the loop ends.
upload_images(outcome) ==
    /\ pc = "upload"
    /\ Len(uploadLog) < Len(InputImages)
    /\ outcome \in UploadOutcomes(InputImages[Len(uploadLog) + 1])
    /\ uploadLog' = Append(uploadLog, outcome)
    /\ IF ~upload_continues(outcome)
       THEN Raise("upload_failed")
       ELSE IF Len(uploadLog') < Len(InputImages)
       THEN UNCHANGED <<pc, result>>
       ELSE IF impl = "service" /\ failed_uploads(uploadLog') # {}
       THEN Return(Error("upload_failed"))
       ELSE /\ pc' = (IF impl = "service" THEN "queue" ELSE "connect")
            /\ result' = result
    /\ calls' = IF outcome = "decode_error" THEN calls ELSE calls \cup {"upload"}
    /\ UNCHANGED <<outside, impl, job_input, probes, sleeps, client_id, prompt_id, backend,
                   handles, ws, inflight, drops, attempt, rlog, reconnects, openLog,
                   sawCompletion, history, fetchLog, sink>>

\* ------------------------------------------------------------------ stream
\* The handle the variable ws is bound to is connected.
Connected == ws # 0 /\ handles[ws] = "open"

\* ws_close as it would be without the finally clause: the handle stays as it is.
ws_close_missing(hs) == hs

\* ws.close(): the handle ws is bound to is closed (a handle whose socket the
\* library already released stays released).
ws_close(hs) == IF ws = 0 THEN hs ELSE [hs EXCEPT ![ws] = "closed"]

\* --------------------------------------------------------------- submission
QueueOutcomes == {"200_prompt_id", "200_no_prompt_id", "500", "exc"}

\* queue_accepted without the check for "prompt_id" in the answer.
queue_accepted_unchecked(resp) == resp \in {"200_prompt_id", "200_no_prompt_id"}

\* Whether the caller goes on with the answer of POST /prompt: the status is 200
\* (service.py line 233, gcp line 182) and the body has "prompt_id" (service.py
\* line 314, the lookup of gcp line 235).
queue_accepted(resp) == resp = "200_prompt_id"

\* queue_result["prompt_id"], and whether the backend has taken the job.
prompt_id_of(resp) == IF resp = "200_prompt_id" THEN OwnJob ELSE NoId

\* queue_workflow with a failed submission tried again instead of ending the job.
queue_workflow_retrying(cid, resp) ==
    /\ pc = "queue"
    /\ IF impl = "service" THEN client_id' = cid ELSE client_id' = client_id
    /\ IF queue_accepted(resp)
       THEN /\ prompt_id' = prompt_id_of(resp)
            /\ backend' = (IF prompt_id_of(resp) = NoId THEN backend ELSE "running")
            /\ pc' = (IF impl = "service" THEN "connect" ELSE "recv")
            /\ UNCHANGED <<result, handles, inflight>>
       ELSE UNCHANGED <<prompt_id, backend, pc, result, handles, inflight>>
    /\ calls' = calls \cup {"submit"}
    /\ UNCHANGED <<outside, impl, job_input, probes, sleeps, uploadLog, ws, drops, attempt, rlog,
                   reconnects, openLog, sawCompletion, history, fetchLog, sink>>

\* queue_workflow and the caller's use of its answer.
\* service.py lines 307-318: the uuid is drawn, the workflow posted, then the
\* stream is opened.  gcp lines 233-235: the stream is already open and the
\* finally clause closes it when the post or the lookup of "prompt_id" raises.
queue_workflow(cid, resp) ==
    /\ pc = "queue"
    /\ IF impl = "service" THEN client_id' = cid ELSE client_id' = client_id
    /\ IF queue_accepted(resp)
       THEN /\ prompt_id' = prompt_id_of(resp)
            /\ backend' = (IF prompt_id_of(resp) = NoId THEN backend ELSE "running")
            /\ pc' = (IF impl = "service" THEN "connect" ELSE "recv")
            /\ UNCHANGED <<result, handles, inflight>>
       ELSE /\ UNCHANGED <<prompt_id, backend>>
            /\ IF resp = "200_no_prompt_id" THEN Fail("no_prompt_id") ELSE Raise("queue_failed")
            /\ handles' = (IF impl = "gcp" THEN ws_close(handles) ELSE handles)
            /\ inflight' = <<>>
    /\ calls' = calls \cup {"submit"}
    /\ UNCHANGED <<outside, impl, job_input, probes, sleeps, uploadLog, ws, drops, attempt, rlog,
                   reconnects, openLog, sawCompletion, history, fetchLog, sink>>

\* ws_connect with a failed initial handshake handed to the reconnection loop
\* instead of ending the job.
ws_connect_reconnecting(cid, ok) ==
    /\ pc = "connect"
    /\ IF impl = "gcp" THEN client_id' = cid ELSE client_id' = client_id
    /\ openLog' = <<ws_url_of(client_id')>>
    /\ IF ok
       THEN /\ handles' = Append(handles, "open")
            /\ ws' = Len(handles) + 1
            /\ pc' = (IF impl = "service" THEN "recv" ELSE "queue")
            /\ UNCHANGED <<attempt, rlog>>
       ELSE /\ UNCHANGED <<handles, ws>>
            /\ attempt' = 1
            /\ rlog' = <<>>
            /\ pc' = "reconnect_sleep"
    /\ calls' = calls \cup {"ws_open"}
    /\ UNCHANGED <<outside, impl, job_input, result, probes, sleeps, uploadLog, prompt_id, backend,
                   inflight, drops, reconnects, sawCompletion, history, fetchLog, sink>>

\* The initial handshake: ws = websocket.WebSocket(); ws.connect(ws_url).
\* service.py lines 321-327 (after the submission), gcp lines 228-231 (before it,
\* with the uuid drawn here).
ws_connect(cid, ok) ==
    /\ pc = "connect"
    /\ IF impl = "gcp" THEN client_id' = cid ELSE client_id' = client_id
    /\ openLog' = <<ws_url_of(client_id')>>
    /\ IF ok
       THEN /\ handles' = Append(handles, "open")
            /\ ws' = Len(handles) + 1
            /\ pc' = (IF impl = "service" THEN "recv" ELSE "queue")
            /\ result' = result
       ELSE /\ UNCHANGED <<handles, ws>>
            /\ Fail("ws_connect")
    /\ calls' = calls \cup {"ws_open"}
    /\ UNCHANGED <<outside, impl, job_input, probes, sleeps, uploadLog, prompt_id, backend, inflight,
                   drops, attempt, rlog, reconnects, sawCompletion, history, fetchLog, sink>>

\* ------------------------------------------------------------- environment
\* Positions at which the orchestrator holds a stream it will still read from
\* (frames and drops after the last recv are never observed by the code).
Listening == {"queue", "recv", "reconnect_sleep", "reconnect_connect"}

\* A frame arrives on the connected stream: anything about other jobs or of
\* unknown shape at any time, progress of the job while the backend runs it.
EnvEmit(f) ==
    /\ pc \in Listening
    /\ Connected
    /\ Len(inflight) < MaxInflight
    /\ f \in EnvFrames \cup (IF backend = "running" THEN ProgressFrames ELSE {})
    /\ inflight' = Append(inflight, f)
    /\ UNCHANGED <<outside, calls, impl, job_input, pc, result, probes, sleeps, uploadLog, client_id, prompt_id,
                   backend, handles, ws, drops, attempt, rlog, reconnects, openLog,
                   sawCompletion, history, fetchLog, sink>>

\* The backend ends the job and notifies the session's stream once: the frame
\* is lost when no stream of the session is connected at that moment.
BackendEnds(how) ==
    /\ pc \notin {"done", "fetch"}
    /\ backend = "running"
    /\ how \in {"done", "failed"}
    /\ backend' = how
    /\ Connected => Len(inflight) < MaxInflight
    /\ inflight' = IF Connected
                   THEN Append(inflight, IF how = "done" THEN Completion(OwnJob)
                                                        ELSE ExecutionError(OwnJob))
                   ELSE inflight
    /\ UNCHANGED <<outside, calls, impl, job_input, pc, result, probes, sleeps, uploadLog, client_id, prompt_id,
                   handles, ws, drops, attempt, rlog, reconnects, openLog,
                   sawCompletion, history, fetchLog, sink>>

\* The connection drops; frames already delivered can still be read.
EnvDrop ==
    /\ pc \in Listening
    /\ Connected
    /\ drops < MaxDrops
    /\ drops' = drops + 1
    /\ handles' = [handles EXCEPT ![ws] = "dropped"]
    /\ UNCHANGED <<outside, calls, impl, job_input, pc, result, probes, sleeps, uploadLog, client_id, prompt_id,
                   backend, ws, inflight, attempt, rlog, reconnects, openLog,
                   sawCompletion, history, fetchLog, sink>>

\* ----------------------------------------------------------------- monitor
\* What the body of process_job's monitoring loop does with a frame recv
\* returned (service.py lines 334-346, 354-356):
\*   "continue"  the loop reads the next frame
\*   "completed" break at line 342
\*   "failed"    return {"error": "Workflow execution failed"} at line 346
\*   "exception" json.loads or a key lookup raised: except Exception, break
process_job_on_message(m, pid) ==
    IF m.bad THEN "exception"
    ELSE IF m.empty THEN "continue"
    ELSE IF ~m.json THEN "exception"
    ELSE IF "type" \notin m.fields THEN "exception"
    ELSE IF m.type = "executing"
         THEN IF "data" \notin m.fields \/ "node" \notin m.fields THEN "exception"
              ELSE IF m.node # "null" THEN "continue"
              ELSE IF "prompt_id" \notin m.fields THEN "exception"
              ELSE IF m.pid = pid THEN "completed" ELSE "continue"
    ELSE IF m.type = "execution_error"
         THEN IF "data" \notin m.fields THEN "exception" ELSE "failed"
    ELSE "continue"

\* The same for run_workflow_and_get_images (gcp lines 238-242): nothing is
\* caught, so "exception" leaves the function through the finally clause.
run_workflow_on_message(m, pid) ==
    IF m.bad THEN "exception"
    ELSE IF ~m.str THEN "continue"
    ELSE IF ~m.json THEN "exception"
    ELSE IF "type" \notin m.fields THEN "exception"
    ELSE IF m.type = "executed"
         THEN IF "data" \notin m.fields \/ "prompt_id" \notin m.fields THEN "exception"
              ELSE IF m.pid = pid THEN "completed" ELSE "continue"
    ELSE "continue"

on_message(m, pid) ==
    IF impl = "service" THEN process_job_on_message(m, pid) ELSE run_workflow_on_message(m, pid)

\* The notification the spec names the job's success signal.
IsCompletion(m, pid) ==
    /\ m.json /\ ~m.bad /\ ~m.empty /\ m.fields = AllFields
    /\ m.type = "executing" /\ m.node = "null" /\ m.pid = pid

\* ws.recv() returns a frame and the loop body handles it.  Leaving the loop,
\* service.py closes the stream in the finally clause of line 358 before it
\* queries the history; gcp closes it in the finally clause of line 270, when
\* the function returns or raises.
Recv ==
    /\ pc = "recv"
    /\ inflight # <<>>
    /\ LET m == Head(inflight)
           d == on_message(m, prompt_id)
       IN  /\ sawCompletion' = (sawCompletion \/ IsCompletion(m, prompt_id))
           /\ IF d = "continue"
              THEN /\ inflight' = Tail(inflight)
                   /\ UNCHANGED <<pc, result, handles>>
              ELSE /\ inflight' = <<>>
                   /\ IF d = "failed"
                      THEN /\ handles' = ws_close(handles)
                           /\ Return(Error("execution_error"))
                      ELSE IF impl = "service"
                      THEN /\ handles' = ws_close(handles)
                           /\ pc' = "history" /\ result' = result
                      ELSE IF d = "exception"
                      THEN /\ handles' = ws_close(handles)
                           /\ Raise("monitor_exception")
                      ELSE /\ handles' = handles
                           /\ pc' = "history" /\ result' = result
    /\ UNCHANGED <<outside, calls, impl, job_input, probes, sleeps, uploadLog, client_id, prompt_id, backend,
                   ws, drops, attempt, rlog, reconnects, openLog, history, fetchLog, sink>>

\* ws.recv() raises WebSocketConnectionClosedException (the library releases
\* the socket).  service.py line 348 enters _attempt_websocket_reconnect; gcp
\* has no handler and leaves through the finally clause.
RecvClosed ==
    /\ pc = "recv"
    /\ inflight = <<>>
    /\ ws # 0 /\ handles[ws] = "dropped"
    /\ IF impl = "service"
       THEN /\ handles' = [handles EXCEPT ![ws] = "lost"]
            /\ rlog' = <<>>
            /\ IF WEBSOCKET_RECONNECT_ATTEMPTS >= 1
               THEN attempt' = 1 /\ pc' = "reconnect_sleep" /\ result' = result
               ELSE attempt' = attempt /\ Raise("reconnect_exhausted")
       ELSE /\ handles' = ws_close(handles)
            /\ Raise("connection_closed")
            /\ UNCHANGED <<attempt, rlog>>
    /\ UNCHANGED <<outside, calls, impl, job_input, probes, sleeps, uploadLog, client_id, prompt_id, backend,
                   ws, inflight, drops, reconnects, openLog, sawCompletion, history,
                   fetchLog, sink>>

\* gcp line 231 connects with timeout=10, so a recv on a silent stream raises
\* WebSocketTimeoutException; service.py sets no timeout and its recv blocks.
RecvTimeout ==
    /\ impl = "gcp" /\ pc = "recv"
    /\ inflight = <<>>
    /\ Connected
    /\ handles' = ws_close(handles)
    /\ Raise("timeout")
    /\ UNCHANGED <<outside, calls, impl, job_input, probes, sleeps, uploadLog, client_id, prompt_id, backend,
                   ws, inflight, drops, attempt, rlog, reconnects, openLog, sawCompletion,
                   history, fetchLog, sink>>

\* -------------------------------------------------------------- reconnection
\* The url a reconnect handshake goes to: the ws_url argument, which process_job
\* passes unchanged.
reconnect_url == ws_url_of(client_id)

\* reconnect_outcome with one budget shared by all reconnections of a run
\* instead of one that starts afresh with each.
reconnect_outcome_shared_budget(ok, a) ==
    IF ok THEN "return"
    ELSE IF reconnects + 1 >= WEBSOCKET_RECONNECT_ATTEMPTS THEN "raise"
    ELSE "retry"

\* reconnect_outcome with a loop that runs one iteration too many.
reconnect_outcome_one_more(ok, a) ==
    IF ok THEN "return"
    ELSE IF a = WEBSOCKET_RECONNECT_ATTEMPTS + 1 THEN "raise"
    ELSE "retry"

\* reconnect_outcome without the return after a successful handshake: the loop
\* goes on until its last iteration.
reconnect_outcome_no_return(ok, a) ==
    IF a < WEBSOCKET_RECONNECT_ATTEMPTS THEN "retry"
    ELSE IF ok THEN "return"
    ELSE "raise"

\* How iteration a of the loop of _attempt_websocket_reconnect ends: "return"
\* at line 67 when the handshake succeeded, "raise" at line 73 when it failed
\* and a = max_attempts, else the next iteration.
reconnect_outcome(ok, a) ==
    IF ok THEN "return"
    ELSE IF a = WEBSOCKET_RECONNECT_ATTEMPTS THEN "raise"
    ELSE "retry"

\* time.sleep(delay_s) at line 62.
attempt_websocket_reconnect_sleep ==
    /\ pc = "reconnect_sleep"
    /\ rlog' = Append(rlog, [ev |-> "sleep", delay |-> WEBSOCKET_RECONNECT_DELAY_S,
                             url |-> <<>>, ok |-> FALSE])
    /\ pc' = "reconnect_connect"
    /\ UNCHANGED <<outside, calls, impl, job_input, result, probes, sleeps, uploadLog, client_id, prompt_id,
                   backend, handles, ws, inflight, drops, attempt, reconnects, openLog,
                   sawCompletion, history, fetchLog, sink>>

\* ws = websocket.WebSocket(); ws.connect(ws_url) at lines 64-67, and the
\* handler at lines 69-75.  A raise leaves process_job through the finally
\* clause (ws is still the lost handle) and the outer except of line 402.
attempt_websocket_reconnect_connect(ok) ==
    /\ pc = "reconnect_connect"
    /\ rlog' = Append(rlog, [ev |-> "connect", delay |-> 0, url |-> reconnect_url, ok |-> ok])
    /\ reconnects' = reconnects + 1
    /\ LET connected == IF ok THEN Append(handles, "open") ELSE handles
           out == reconnect_outcome(ok, attempt)
       IN  IF out = "return"
           THEN /\ handles' = connected
                /\ ws' = Len(connected)
                /\ inflight' = <<>>
                /\ pc' = "recv"
                /\ UNCHANGED <<attempt, result>>
           ELSE IF out = "retry"
           THEN /\ handles' = connected
                /\ attempt' = attempt + 1
                /\ pc' = "reconnect_sleep"
                /\ UNCHANGED <<ws, inflight, result>>
           ELSE /\ handles' = ws_close(connected)
                /\ Raise("reconnect_exhausted")
                /\ UNCHANGED <<ws, inflight, attempt>>
    /\ calls' = calls \cup {"ws_reconnect"}
    /\ UNCHANGED <<outside, impl, job_input, probes, sleeps, uploadLog, client_id, prompt_id, backend,
                   drops, openLog, sawCompletion, history, fetchLog, sink>>

\* ---------------------------------------------------------------- collect
\* Bodies of a 200 answer of GET /history/{prompt_id}: -1 when the job
\* identifier is not a key of it, else the number of artifact references listed
\* under outputs.  The backend records a job in its history when the job ends.
HistoryBodies == IF backend \in {"done", "failed"} THEN -1..MaxArtifacts ELSE {-1}

\* history_found without the check that the job identifier is a key of the body.
history_found_unchecked(body) == TRUE

\* prompt_id in history (service.py line 369); the lookup [prompt_id] of gcp
\* line 244 raises KeyError otherwise.
history_found(body) == body # -1

\* get_history and the caller's checks.  service.py lines 249-260 and 365-370:
\* a failed request becomes {"error": ...}, a body without the job identifier
\* "Execution history not found".  gcp lines 186-190 and 244: raise_for_status
\* or the lookup [prompt_id] raises.
get_history(resp, body) ==
    /\ pc = "history"
    /\ body \in HistoryBodies
    /\ IF resp # "200"
       THEN /\ Fail("history_error")
            /\ handles' = ws_close(handles)
            /\ history' = -2
       ELSE IF ~history_found(body)
       THEN /\ Fail("history_not_found")
            /\ handles' = ws_close(handles)
            /\ history' = -2
       ELSE /\ history' = body
            /\ IF body = 0
               THEN /\ Return(IF impl = "service" THEN Success(<<>>) ELSE GcpSuccess(<<>>, <<>>))
                    /\ handles' = ws_close(handles)
               ELSE /\ pc' = "fetch"
                    /\ UNCHANGED <<result, handles>>
    /\ calls' = calls \cup {"history"}
    /\ UNCHANGED <<outside, impl, job_input, probes, sleeps, uploadLog, client_id, prompt_id, backend,
                   ws, inflight, drops, attempt, rlog, reconnects, openLog, sawCompletion,
                   fetchLog, sink>>

\* Answers of GET /view for one artifact: bytes, an empty body, or not found (a
\* non-2xx status; a request that raises is handled by the same branch in both
\* orchestrators).
FetchOutcomes == {"bytes", "empty", "404"}
PutOutcomes == {"stored", "raised"}

\* service_keeps taking every 200 answer, an empty body included.
service_keeps_any_answer(out) == out # "404"

\* service.py get_image_data: the bytes of a 200 answer, else None; the
\* caller keeps the artifact when the bytes are truthy (line 385).
service_keeps(out) == out = "bytes"

\* relocate_sink with the two buckets tested in the other order.
relocate_sink_s3_first == IF sink.s3 THEN "s3_url" ELSE IF sink.gcs THEN "gcs_url" ELSE "base64"

\* The sink of gcp lines 256-264.
relocate_sink == IF sink.gcs THEN "gcs_url" ELSE IF sink.s3 THEN "s3_url" ELSE "base64"

Artifact(k, t) == [idx |-> k, type |-> t]

\* The storage call an artifact's bytes lead to (gcp lines 256-261): none for an
\* artifact without bytes or when no bucket is configured.
relocate_calls(out) ==
    IF out # "bytes" THEN {}
    ELSE IF relocate_sink = "gcs_url" THEN {"gcs_put"}
    ELSE IF relocate_sink = "s3_url" THEN {"s3_put"}
    ELSE {}

\* One iteration of the artifact loop of process_job (service.py lines 376-393)
\* and the return of lines 395-400 after the last one.
process_job_fetch(out) ==
    /\ impl = "service" /\ pc = "fetch"
    /\ Len(fetchLog) < history
    /\ fetchLog' = Append(fetchLog, out)
    /\ LET k == Len(fetchLog) + 1
           imgs == IF service_keeps(out) THEN Append(result.images, Artifact(k, "base64"))
                   ELSE result.images
       IN  IF k = history
           THEN Return(Success(imgs))
           ELSE /\ result' = [result EXCEPT !.images = imgs]
                /\ pc' = pc
    /\ calls' = calls \cup {"view"}
    /\ UNCHANGED <<outside, impl, job_input, probes, sleeps, uploadLog, client_id, prompt_id, backend,
                   handles, ws, inflight, drops, attempt, rlog, reconnects, openLog,
                   sawCompletion, history, sink>>

\* One iteration of the artifact loop of run_workflow_and_get_images (gcp lines
\* 248-264) and the return of lines 266-271.  get_image_data raises on a non-2xx
\* answer (raise_for_status); an empty body is recorded under errors; the bytes
\* go to the first configured sink, whose put may raise.
run_workflow_fetch(out, put) ==
    /\ impl = "gcp" /\ pc = "fetch"
    /\ Len(fetchLog) < history
    /\ fetchLog' = Append(fetchLog, out)
    /\ put = "raised" => (out = "bytes" /\ relocate_sink # "base64")
    /\ LET k == Len(fetchLog) + 1
           imgs == IF out = "bytes" THEN Append(result.images, Artifact(k, relocate_sink))
                   ELSE result.images
           errs == IF out = "empty" THEN Append(result.errors, k) ELSE result.errors
       IN  IF out = "404"
           THEN Raise("fetch_failed") /\ handles' = ws_close(handles)
           ELSE IF put = "raised"
           THEN Raise("relocation_failed") /\ handles' = ws_close(handles)
           ELSE IF k = history
           THEN Return(GcpSuccess(imgs, errs)) /\ handles' = ws_close(handles)
           ELSE /\ result' = [result EXCEPT !.images = imgs, !.errors = errs]
                /\ UNCHANGED <<pc, handles>>
    /\ calls' = calls \cup {"view"} \cup relocate_calls(out)
    /\ UNCHANGED <<outside, impl, job_input, probes, sleeps, uploadLog, client_id, prompt_id, backend,
                   ws, inflight, drops, attempt, rlog, reconnects, openLog,
                   sawCompletion, history, sink>>

Next ==
    \/ Validate
    \/ \E resp \in HttpOutcomes : check_server(resp)
    \/ \E outcome \in HttpOutcomes \cup {"decode_error"} : upload_images(outcome)
    \/ \E cid \in ClientIds, resp \in QueueOutcomes : queue_workflow(cid, resp)
    \/ \E cid \in ClientIds, ok \in BOOLEAN : ws_connect(cid, ok)
    \/ \E f \in EnvFrames \cup ProgressFrames : EnvEmit(f)
    \/ \E how \in {"done", "failed"} : BackendEnds(how)
    \/ EnvDrop
    \/ Recv
    \/ RecvClosed
    \/ RecvTimeout
    \/ attempt_websocket_reconnect_sleep
    \/ \E ok \in BOOLEAN : attempt_websocket_reconnect_connect(ok)
    \/ \E resp \in HttpOutcomes, body \in -1..MaxArtifacts : get_history(resp, body)
    \/ \E out \in FetchOutcomes : process_job_fetch(out)
    \/ \E out \in FetchOutcomes, put \in PutOutcomes : run_workflow_fetch(out, put)

Spec == Init /\ [][Next]_vars

\* The steps of the orchestrator itself.  Each is a call with a timeout, a sleep
\* or local code, so a step that can be taken is taken; the backend and the
\* stream owe nothing.
Orchestrator ==
    \/ Validate
    \/ \E resp \in HttpOutcomes : check_server(resp)
    \/ \E outcome \in HttpOutcomes \cup {"decode_error"} : upload_images(outcome)
    \/ \E cid \in ClientIds, resp \in QueueOutcomes : queue_workflow(cid, resp)
    \/ \E cid \in ClientIds, ok \in BOOLEAN : ws_connect(cid, ok)
    \/ Recv
    \/ RecvClosed
    \/ RecvTimeout
    \/ attempt_websocket_reconnect_sleep
    \/ \E ok \in BOOLEAN : attempt_websocket_reconnect_connect(ok)
    \/ \E resp \in HttpOutcomes, body \in -1..MaxArtifacts : get_history(resp, body)
    \/ \E out \in FetchOutcomes : process_job_fetch(out)
    \/ \E out \in FetchOutcomes, put \in PutOutcomes : run_workflow_fetch(out, put)

FairSpec == Spec /\ WF_vars(Orchestrator)

\* ------------------------------------------------- validate_input by itself
\* The {} that validate_input returns next to an error message.
EmptyDict == Input("empty", FALSE, FALSE, FALSE, FALSE, <<>>)

\* validate_input_returns handing back, on acceptance, a copy in which a missing
\* "images" is filled in with an empty list.
validate_input_returns_defaulting(inp) ==
    IF validate_input(inp) = ""
    THEN [value |-> [inp EXCEPT !.hasImages = TRUE, !.imagesIsList = TRUE], error |-> ""]
    ELSE [value |-> EmptyDict, error |-> validate_input(inp)]

\* The pair validate_input returns (service.py lines 83-111): ({}, message) on
\* rejection, (job_input, None) on acceptance.
validate_input_returns(inp) ==
    IF validate_input(inp) = ""
    THEN [value |-> inp, error |-> ""]
    ELSE [value |-> EmptyDict, error |-> validate_input(inp)]

\* One call of validate_input on job_input; the function only reads its argument.
validate_input_call ==
    /\ pc = "idle"
    /\ Len(validated) < MaxCalls
    /\ validated' = Append(validated, validate_input_returns(job_input))
    /\ UNCHANGED <<jobVars, appVars, flaskVars>>

ValidateInit ==
    /\ AppServing
    /\ validated = <<>>
    /\ flask_response = <<>>
    /\ handler = [r \in Handlers |-> NoHandler]
    /\ impl = "service"
    /\ job_input \in ServiceInputs
    /\ pc = "idle"
    /\ Fresh
    /\ sink = NoSink

ValidateNext == validate_input_call

ValidateSpec == ValidateInit /\ [][ValidateNext]_vars

\* ------------------------------------------------ the service (src/main.py)
\* The module is imported, initialize_service starts the thread of
\* start_comfyui, and the function app answers requests; POST /predict runs
\* process_job of service.py, whose steps are the actions above.  One request
\* is in progress at a time.

\* AppState.__init__, lines 29-33; no job runs.
HttpInit ==
    /\ JobIdle("service")
    /\ Quiet
    /\ comfy_service = FALSE
    /\ comfy_ready = FALSE
    /\ comfy_process = "none"
    /\ startup = [pc |-> "init", i |-> 0, last |-> ""]
    /\ response = NoAnswer

\* initialize_service, lines 93-105: the service object is made and the thread
\* launched, before any request is served.
initialize_service ==
    /\ startup.pc = "init"
    /\ comfy_service' = TRUE
    /\ startup' = [startup EXCEPT !.pc = "popen"]
    /\ UNCHANGED <<jobVars, validated, flaskVars, comfy_ready, comfy_process, response>>

\* start_comfyui, line 72: subprocess.Popen.
start_comfyui_popen ==
    /\ startup.pc = "popen"
    /\ comfy_process' = "running"
    /\ startup' = [startup EXCEPT !.pc = "probe"]
    /\ UNCHANGED <<jobVars, validated, flaskVars, comfy_service, comfy_ready, response>>

\* startup_ready taking any answer of the backend for readiness.
startup_ready_any_answer(resp) == resp # "exc"

\* response.status_code == 200 at line 80.
startup_ready(resp) == resp = "200"

\* One iteration of the loop of start_comfyui, lines 76-86, and lines 88-91
\* after the last.
start_comfyui_probe(resp) ==
    /\ startup.pc = "probe"
    /\ IF startup_ready(resp)
       THEN /\ comfy_ready' = TRUE
            /\ startup' = [pc |-> "ready", i |-> 0, last |-> resp]
            /\ UNCHANGED comfy_process
       ELSE /\ UNCHANGED comfy_ready
            /\ IF startup.i + 1 < MaxStartRetries
               THEN /\ startup' = [startup EXCEPT !.i = startup.i + 1, !.last = resp]
                    /\ UNCHANGED comfy_process
               ELSE /\ startup' = [pc |-> "failed", i |-> 0, last |-> resp]
                    /\ comfy_process' = "terminated"
    /\ UNCHANGED <<jobVars, validated, flaskVars, comfy_service, response>>

\* The module is loaded and the function app serves requests.
Serving == startup.pc # "init"

\* healthz_status answering ok whatever the state.
healthz_status_always_ok == "ok"

\* GET /healthz, lines 127-134.
healthz_status == IF comfy_ready THEN "ok" ELSE "initializing"

\* The route reads comfy_ready only, and comfy_ready does not change while a
\* job runs, so it is asked between jobs: before, during and after the startup.
healthz ==
    /\ Serving
    /\ pc = "idle"
    /\ response' = [code |-> 200, status |-> healthz_status, error |-> "", result |-> NoResult]
    /\ UNCHANGED <<jobVars, validated, flaskVars, comfy_service, comfy_ready, comfy_process,
                   startup>>

\* What request.get_json() gives for the body of a POST /predict: it raises, it
\* returns a falsy value (None, {}, [], 0, ""), or it returns a value that
\* process_job is called with.
PredictInputs ==
    {inp \in ServiceInputs : inp.kind # "none" /\ Len(inp.images) <= MaxPredictImages}
PredictBodies ==
    {[json |-> "invalid", value |-> NoInput], [json |-> "falsy", value |-> NoInput]}
    \cup {[json |-> "value", value |-> inp] : inp \in PredictInputs}

\* not state.comfy_ready or not state.comfy_service, line 138.
not_ready == ~comfy_ready \/ ~comfy_service

\* POST /predict up to the call of process_job, lines 136-146, and the except
\* clause of lines 167-169.
predict_enter(body) ==
    /\ Serving
    /\ pc = "idle"
    /\ IF not_ready
       THEN /\ response' = [code |-> 503, status |-> "", error |-> "Service not ready", result |-> NoResult]
            /\ UNCHANGED <<pc, job_input>>
       ELSE IF body.json = "invalid"
       THEN /\ response' = [code |-> 500, status |-> "", error |-> "exception", result |-> NoResult]
            /\ UNCHANGED <<pc, job_input>>
       ELSE IF body.json = "falsy"
       THEN /\ response' = [code |-> 400, status |-> "", error |-> "No JSON data provided", result |-> NoResult]
            /\ UNCHANGED <<pc, job_input>>
       ELSE /\ response' = NoAnswer
            /\ job_input' = body.value
            /\ pc' = "validate"
    /\ UNCHANGED <<validated, flaskVars, comfy_service, comfy_ready, comfy_process, startup,
                   impl, result, probes, sleeps, uploadLog, client_id, prompt_id,
                   backend, handles, ws, inflight, drops, attempt, rlog, reconnects, openLog,
                   sawCompletion, history, fetchLog, sink, calls>>

\* has_error_key never finding the key.
has_error_key_never(r) == FALSE

\* 'error' in result, line 148.
has_error_key(r) == r.status = "error"

\* POST /predict once process_job has returned, lines 148-151; the locals of
\* the call are gone with it.
predict_respond ==
    /\ Serving
    /\ pc = "done"
    /\ response' = [code |-> IF has_error_key(result) THEN 400 ELSE 200, status |-> "",
                    error |-> result.error, result |-> result]
    /\ pc' = "idle"
    /\ job_input' = NoInput
    /\ result' = NoResult
    /\ probes' = 0 /\ sleeps' = 0 /\ uploadLog' = <<>>
    /\ client_id' = NoId /\ prompt_id' = NoId /\ backend' = "idle"
    /\ handles' = <<>> /\ ws' = 0 /\ inflight' = <<>> /\ drops' = 0
    /\ attempt' = 0 /\ rlog' = <<>> /\ reconnects' = 0 /\ openLog' = <<>>
    /\ sawCompletion' = FALSE /\ history' = -1 /\ fetchLog' = <<>> /\ calls' = {}
    /\ UNCHANGED <<impl, sink>>
    /\ UNCHANGED <<validated, flaskVars, comfy_service, comfy_ready, comfy_process, startup>>

HttpNext ==
    \/ initialize_service
    \/ start_comfyui_popen
    \/ \E resp \in HttpOutcomes : start_comfyui_probe(resp)
    \/ healthz
    \/ \E body \in PredictBodies : predict_enter(body)
    \/ predict_respond
    \/ Validate
    \/ \E resp \in HttpOutcomes : check_server(resp)
    \/ \E outcome \in HttpOutcomes \cup {"decode_error"} : upload_images(outcome)
    \/ \E cid \in ClientIds, resp \in QueueOutcomes : queue_workflow(cid, resp)
    \/ \E cid \in ClientIds, ok \in BOOLEAN : ws_connect(cid, ok)
    \/ \E f \in EnvFrames \cup ProgressFrames : EnvEmit(f)
    \/ \E how \in {"done", "failed"} : BackendEnds(how)
    \/ EnvDrop
    \/ Recv
    \/ RecvClosed
    \/ attempt_websocket_reconnect_sleep
    \/ \E ok \in BOOLEAN : attempt_websocket_reconnect_connect(ok)
    \/ \E resp \in HttpOutcomes, body \in -1..MaxArtifacts : get_history(resp, body)
    \/ \E out \in FetchOutcomes : process_job_fetch(out)

HttpSpec == HttpInit /\ [][HttpNext]_vars

\* ------------------------------------------------- the function app (gcp)
\* src/gcp_migration_ata/main.py lines 50-105.  The framework serves requests
\* on several threads; each call of app runs the routed endpoint on an event
\* loop of its own and hands the answer over through the module global
\* flask_response.  A Response object is [of, status, data]: the call that
\* created it, its status and the body chunks appended to it.
RouteStatuses == {200, 422, 500}

\* A request arrives and the endpoint computes an answer of status st.
app_enter(r, st) ==
    /\ handler[r].pc = "idle"
    /\ handler' = [handler EXCEPT ![r].pc = "running", ![r].status = st]
    /\ UNCHANGED <<jobVars, appVars, validated, flask_response>>

\* send, message http.response.start (lines 86-92): a new Response is bound to
\* the global.
app_send_start(r) ==
    /\ handler[r].pc = "running"
    /\ flask_response' = <<[of |-> r, status |-> handler[r].status, data |-> <<>>]>>
    /\ handler' = [handler EXCEPT ![r].pc = "started"]
    /\ UNCHANGED <<jobVars, appVars, validated>>

\* send, message http.response.body (line 94), first half of the statement
\* globals()['flask_response'].data += body: the object the global is bound to
\* and its data are read.
app_send_body_load(r) ==
    /\ handler[r].pc = "started"
    /\ handler' = [handler EXCEPT ![r].pc = "loaded", ![r].loaded = flask_response]
    /\ UNCHANGED <<jobVars, appVars, validated, flask_response>>

\* Second half: the data read, with the body appended, is stored in the object
\* that was read.  When the global has been bound to another object meanwhile,
\* the object written is no longer reachable.
app_send_body_store(r) ==
    /\ handler[r].pc = "loaded"
    /\ LET obj == handler[r].loaded[1]
       IN  flask_response' =
               IF flask_response[1].of = obj.of
               THEN <<[obj EXCEPT !.data = Append(obj.data, r)]>>
               ELSE flask_response
    /\ handler' = [handler EXCEPT ![r].pc = "sent", ![r].loaded = <<>>]
    /\ UNCHANGED <<jobVars, appVars, validated>>

\* return globals().get('flask_response', ...) at line 105.
app_return(r) ==
    /\ handler[r].pc = "sent"
    /\ handler' = [handler EXCEPT ![r].pc = "done", ![r].returned = flask_response]
    /\ UNCHANGED <<jobVars, appVars, validated, flask_response>>

AppInit ==
    /\ JobIdle("gcp")
    /\ AppServing
    /\ Quiet

AppNext ==
    \/ \E r \in Handlers, st \in RouteStatuses : app_enter(r, st)
    \/ \E r \in Handlers : app_send_start(r)
    \/ \E r \in Handlers : app_send_body_load(r)
    \/ \E r \in Handlers : app_send_body_store(r)
    \/ \E r \in Handlers : app_return(r)

AppSpec == AppInit /\ [][AppNext]_vars

\* ================================================================== claims
MonitorPcs == {"recv", "reconnect_sleep", "reconnect_connect"}
Handshakes(log) == {i \in 1..Len(log) : log[i].ev = "connect"}
FailedHandshakes(log) == {i \in Handshakes(log) : ~log[i].ok}

\* C1: the orchestrator goes on to history collection, and returns a success
\* result, only after it has read the notification "executing" with a null node
\* and the job's own prompt_id; nothing else lets the run proceed to collection.
C1_CompletionIsSoleSuccessSignal ==
    (pc \in {"history", "fetch"} \/ history # -1 \/ result.status = "success") => sawCompletion

\* C2: while the monitor listens for a job, a notification that carries another
\* job's identifier is ignored: the monitor keeps listening and the job does
\* not fail, whatever the notification's type.
C2_OtherJobsIgnored ==
    [][(Recv /\ Head(inflight) \in OtherJobFrames) => (pc' = "recv" /\ result' = result)]_vars

\* C3: a notification that does not parse as JSON or has an unrecognized shape
\* is skipped: the monitor stays listening, the job neither fails nor is taken
\* as completed.
C3_UnrecognizedSkipped ==
    [][(Recv /\ Head(inflight) \in Unrecognized) => (pc' = "recv" /\ result' = result)]_vars

\* C4: the monitoring loop of process_job always returns control: once entered
\* it is eventually left, whatever the backend and the stream do.
C4_MonitorReturns ==
    (impl = "service" /\ pc \in MonitorPcs) ~> (pc \notin MonitorPcs)

\* C5 (as claimed): a run of process_job during which the stream disconnected
\* maxAttempts+1 times, each time followed by a reconnection, ends with the
\* reconnection-exhausted error.
C5_BudgetNotRenewed ==
    (impl = "service" /\ pc = "done" /\ Len(handles) >= WEBSOCKET_RECONNECT_ATTEMPTS + 2)
        => result.error = "reconnect_exhausted"

\* C5 (amended): process_job ends with the reconnection-exhausted error exactly
\* when maxAttempts consecutive handshakes of one reconnection have failed; the
\* budget is counted per reconnection, so earlier reconnections do not use it up.
C5_BudgetPerReconnection ==
    /\ attempt <= WEBSOCKET_RECONNECT_ATTEMPTS
    /\ (impl = "service" /\ pc = "done") =>
          ((result.error = "reconnect_exhausted")
              <=> (Cardinality(FailedHandshakes(rlog)) = WEBSOCKET_RECONNECT_ATTEMPTS))

\* The budget is exhausted in a reconnection that follows a successful one.
C5_Witness ==
    /\ impl = "service" /\ pc = "done" /\ result.error = "reconnect_exhausted"
    /\ Len(handles) >= 2

\* C6: one reconnection performs at most maxAttempts handshakes, each preceded
\* by a sleep of delaySeconds and each to the url of the initial open; it goes
\* back to listening at the first successful handshake without further
\* attempts; when all maxAttempts handshakes fail, process_job returns an error
\* without having queried the history or fetched an artifact.
C6_ReconnectionProtocol ==
    /\ Cardinality(Handshakes(rlog)) <= WEBSOCKET_RECONNECT_ATTEMPTS
    /\ \A i \in Handshakes(rlog) :
          /\ i > 1
          /\ rlog[i - 1].ev = "sleep"
          /\ rlog[i - 1].delay = WEBSOCKET_RECONNECT_DELAY_S
          /\ openLog # <<>> /\ rlog[i].url = openLog[1]
          /\ rlog[i].ok => (i = Len(rlog) /\ pc \notin {"reconnect_sleep", "reconnect_connect"})
    /\ (rlog # <<>> /\ rlog[Len(rlog)].ev = "connect" /\ rlog[Len(rlog)].ok)
          => (ws = Len(handles) /\ (pc = "recv" \/ handles[ws] = "closed"))
    /\ Cardinality(FailedHandshakes(rlog)) = WEBSOCKET_RECONNECT_ATTEMPTS
          => (pc = "done" /\ result.status = "error" /\ history = -1 /\ fetchLog = <<>>)

\* All handshakes of a reconnection failed, each after its sleep.
C6_Witness ==
    /\ pc = "done" /\ result.error = "reconnect_exhausted"
    /\ Len(rlog) = 2 * WEBSOCKET_RECONNECT_ATTEMPTS

C8_StreamReleased ==
    pc = "done" => \A h \in 1..Len(handles) : handles[h] \in {"closed", "lost"}

\* The orchestrator returned on an abort path after a reconnection.
C8_Witness ==
    /\ pc = "done" /\ result.status = "error"
    /\ Len(handles) = 2 /\ handles[1] = "lost" /\ handles[2] = "closed"

\* C9: when the history lists 3 artifacts and the fetch of the 2nd answers
\* not-found, the orchestrator returns a success result with exactly 2
\* artifacts and an errors list of length 1.
C9_PartialArtifactFailure ==
    (/\ pc = "done" /\ history = 3
     /\ Len(fetchLog) >= 2 /\ fetchLog[1] = "bytes" /\ fetchLog[2] = "404"
     /\ Len(fetchLog) = 3 => fetchLog[3] = "bytes"
     /\ result.error # "relocation_failed")
        => (/\ result.status = "success"
            /\ Len(result.images) = 2
            /\ Len(result.errors) = 1)

\* C10: uploads are sequential and short-circuiting: no upload is attempted
\* after the first failing one.
C10_UploadShortCircuits ==
    \A i \in 1..Len(uploadLog) : uploadLog[i] # "200" => Len(uploadLog) = i

\* Requests that come after the input assets are uploaded.
AfterUpload == {"submit", "ws_open", "ws_reconnect", "history", "view", "gcs_put", "s3_put"}

\* C11: when the upload of an input asset has failed (its payload could not be
\* decoded, the answer was not 200, or the request raised), the orchestrator
\* ends with an error and the job is never submitted: no submit call, no stream
\* open and no history query is made in that run.
C11_UploadFailureStopsJob ==
    (\E i \in 1..Len(uploadLog) : uploadLog[i] # "200") =>
        /\ pc \in {"upload", "done"}
        /\ pc = "done" => (result.status = "error" /\ result.error = "upload_failed")
        /\ calls \cap AfterUpload = {}
        /\ prompt_id = NoId /\ backend = "idle" /\ handles = <<>> /\ history = -1

\* The second of two assets failed to upload and the orchestrator has returned.
C11_Witness ==
    /\ pc = "done" /\ Len(uploadLog) = 2
    /\ uploadLog[1] = "200" /\ uploadLog[2] \in {"500", "exc", "decode_error"}

\* C12: when the backend does not answer 200 during the readiness wait, the
\* orchestrator fails with the backend-unavailable error after exactly
\* maxAttempts probes, and no asset upload, submission or stream open is made
\* in that run.
C12_ReadinessGivesUp ==
    /\ probes <= MaxRetries
    /\ probes = MaxRetries =>
          (pc = "done" /\ result.status = "error" /\ result.error = "not_available")
    /\ result.error = "not_available" =>
          /\ probes = MaxRetries
          /\ calls = {"probe"}
          /\ uploadLog = <<>> /\ prompt_id = NoId /\ handles = <<>> /\ openLog = <<>>

\* Every probe of the readiness wait went unanswered.
C12_Witness ==
    pc = "done" /\ result.error = "not_available" /\ probes = MaxRetries

\* The request shapes the specification calls invalid: the input is missing or
\* not a mapping, the workflow is absent or not a mapping, images is not a list,
\* or an image is not a mapping or lacks 'name' or 'image'.
InvalidShape ==
    \/ job_input.kind # "dict"
    \/ ~job_input.hasWorkflow
    \/ ~job_input.workflowIsDict
    \/ job_input.hasImages /\ ~job_input.imagesIsList
    \/ job_input.hasImages /\ \E i \in 1..Len(job_input.images) :
          job_input.images[i] \in {"notdict", "noname", "noimage"}

\* C13: a request of invalid shape makes process_job return a validation error
\* before any network call: no readiness probe, upload, submit, stream open or
\* history query is made.
C13_InvalidShapeNoNetwork ==
    (impl = "service" /\ InvalidShape) =>
        /\ pc = "validate" \/ (pc = "done" /\ result = Error("validation"))
        /\ calls = {}
        /\ probes = 0 /\ uploadLog = <<>> /\ prompt_id = NoId /\ openLog = <<>> /\ history = -1

\* A request whose second image lacks a field was rejected.
C13_Witness ==
    /\ impl = "service" /\ pc = "done" /\ result.error = "validation"
    /\ Len(job_input.images) >= 2
    /\ job_input.images[1] = "ok" /\ job_input.images[2] \in {"noname", "noimage"}

\* C14: when the initial stream handshake fails the job fails at once: the
\* reconnection protocol is not invoked (no reconnect handshake) and no history
\* query follows.
C14_InitialHandshakeFatal ==
    (openLog # <<>> /\ handles = <<>>) =>
        /\ pc = "done" /\ result.status = "error" /\ result.error = "ws_connect"
        /\ reconnects = 0 /\ rlog = <<>>
        /\ calls \cap {"ws_reconnect", "history", "view"} = {}
        /\ history = -1 /\ fetchLog = <<>>

\* The initial handshake of a submitted job failed.
C14_Witness ==
    /\ pc = "done" /\ result.error = "ws_connect"
    /\ "ws_open" \in calls /\ handles = <<>>

\* C15: when the monitor reads an "execution_error" notification for the job,
\* the orchestrator returns an error result and the stream is closed (no history
\* query, artifact fetch or resubmission follows a return).
C15_ExecutionErrorIsFatal ==
    [][(Recv /\ Head(inflight) = ExecutionError(OwnJob))
          => (pc' = "done" /\ result'.status = "error" /\ handles'[ws] = "closed")]_vars

\* C16: when the answer to the submission is not 2xx or its body lacks the job
\* identifier, the job aborts with an error: the monitor never starts listening
\* and no history query or artifact fetch is made.
C16_SubmitFailureAborts ==
    ("submit" \in calls /\ prompt_id = NoId) =>
        /\ pc = "done" /\ result.status = "error"
        /\ result.error \in {"queue_failed", "no_prompt_id"}
        /\ calls \cap {"ws_reconnect", "history", "view"} = {}
        /\ impl = "service" => "ws_open" \notin calls
        /\ ~sawCompletion /\ history = -1 /\ fetchLog = <<>>
        /\ \A h \in 1..Len(handles) : handles[h] # "open"

\* The submission was answered 200 with a body that has no job identifier.
C16_Witness ==
    pc = "done" /\ result.error = "no_prompt_id" /\ "submit" \in calls

\* C17: after the monitor reported completion, a history request that fails
\* (status not 200, or raising) or a history body without the job identifier
\* aborts the job with an error: no artifact is fetched and no success result is
\* returned.
C17_HistoryFailureAborts ==
    ("history" \in calls /\ history < 0) =>
        /\ pc = "done" /\ result.status = "error"
        /\ result.error \in {"history_error", "history_not_found"}
        /\ fetchLog = <<>> /\ "view" \notin calls /\ result.images = <<>>

\* The completion was read and the history body did not contain the job.
C17_Witness ==
    /\ pc = "done" /\ sawCompletion
    /\ "history" \in calls /\ result.error = "history_not_found"

\* C18: a put to object storage that raises for one artifact is fatal to that
\* artifact only: the orchestrator records it under errors and goes on with the
\* remaining artifacts towards a success result.
C18_RelocationFailureIsLocal ==
    [][(\E out \in FetchOutcomes : run_workflow_fetch(out, "raised"))
          => (result'.status # "error" /\ Len(result'.errors) = Len(result.errors) + 1)]_vars

C20_ResultIsSuccessOrError ==
    (impl = "service" /\ pc = "done") =>
        /\ ~result.raised
        /\ result.status \in {"success", "error"}
        /\ result.status = "success" =>
              (result.error = "" /\ result.prompt_id = OwnJob /\ prompt_id = OwnJob)
        /\ result.status = "error" =>
              (result.error # "" /\ result.images = <<>> /\ result.prompt_id = NoId)

\* An exception raised in the body (the submission failed) came back as an
\* error record.
C20_Witness ==
    /\ impl = "service" /\ pc = "done"
    /\ result.error = "queue_failed" /\ ~result.raised

\* C21: no mutable state is shared between concurrent jobs: when two requests
\* are processed at the same time, each caller receives the response produced
\* for its own request; the HTTP response object of one job is never read or
\* overwritten by the other.
C21_OwnResponseReturned ==
    \A r \in Handlers :
        handler[r].pc = "done" =>
            /\ handler[r].returned[1].of = r
            /\ handler[r].returned[1].status = handler[r].status
            /\ handler[r].returned[1].data = <<r>>

\* C22: within one run of the orchestrator, whatever fails, the submission is
\* performed at most once and each input asset is uploaded at most once: once
\* a submission has been made no step submits again, the job identifier
\* obtained is kept, and every upload is that of the next asset not yet tried.
C22_NoRepeatedSubmitOrUpload ==
    [][/\ "submit" \in calls =>
              ~(\E cid \in ClientIds, resp \in QueueOutcomes : queue_workflow(cid, resp))
       /\ prompt_id # NoId => prompt_id' = prompt_id
       /\ uploadLog' # uploadLog =>
              /\ Len(uploadLog') = Len(uploadLog) + 1
              /\ Len(uploadLog') <= Len(InputImages)
              /\ SubSeq(uploadLog', 1, Len(uploadLog)) = uploadLog]_vars

\* A run that uploaded assets, submitted, reconnected and ended in an error.
C22_Witness ==
    /\ pc = "done" /\ result.status = "error"
    /\ Len(uploadLog) >= 2 /\ "submit" \in calls /\ reconnects >= 2

\* C23: POST /predict answers 200 with the job result exactly when process_job
\* returned a result without an 'error' key, answers a non-2xx status with an
\* {error} body when process_job returned an error, and answers 503 without
\* invoking process_job while the backend is not ready (comfy_ready false or
\* no service).
C23_PredictStatus ==
    [][/\ predict_respond =>
              /\ response'.code = 200 <=> result.status = "success"
              /\ result.status = "success" => response'.result = result
              /\ result.status = "error" =>
                     /\ response'.code \notin 200..299
                     /\ response'.error = result.error /\ response'.error # ""
       /\ (response' # response /\ response'.code = 200 /\ ~healthz) =>
              (pc = "done" /\ result.status = "success")
       /\ ((\E body \in PredictBodies : predict_enter(body)) /\ (~comfy_ready \/ ~comfy_service)) =>
              (response'.code = 503 /\ response'.error # "" /\ pc' = "idle" /\ calls' = {})]_vars

\* A job failed in the backend and POST /predict answered with its error.
C23_Witness ==
    /\ response.code = 400 /\ response.result.status = "error"
    /\ response.error = "execution_error"

\* C24: GET /healthz answers 200 in every state of the service (the backend
\* still initializing, ready, or failed to start), reports status 'ok' exactly
\* when comfy_ready is true, and changes no state.
C24_HealthzAlways200 ==
    [][healthz =>
          /\ response'.code = 200
          /\ response'.status = "ok" <=> comfy_ready
          /\ UNCHANGED <<jobVars, comfy_service, comfy_ready, comfy_process, startup>>]_vars

\* /healthz was answered after the backend had failed to start.
C24_Witness ==
    /\ startup.pc = "failed" /\ comfy_process = "terminated"
    /\ response.code = 200 /\ response.status = "initializing"

\* C29: comfy_ready is monotone: false initially, it becomes true only after a
\* startup probe answered 200 and never returns to false; process_job runs
\* through /predict only while comfy_ready is true; when the backend does not
\* answer within the startup attempts its process is terminated and every later
\* POST /predict answers 503.
C29_ReadyMonotone ==
    /\ ~comfy_ready
    /\ [][/\ comfy_ready => comfy_ready'
          /\ (~comfy_ready /\ comfy_ready') => (startup.pc = "probe" /\ startup'.last = "200")
          /\ (startup.pc = "failed" /\ \E body \in PredictBodies : predict_enter(body)) =>
                 (response'.code = 503 /\ pc' = "idle")]_vars
    /\ [](pc # "idle" => comfy_ready)
    /\ [](startup.pc = "failed" => (comfy_process = "terminated" /\ ~comfy_ready /\ pc = "idle"))

\* The backend never answered: its process is terminated and a later POST
\* /predict was answered 503.
C29_Witness ==
    /\ startup.pc = "failed" /\ comfy_process = "terminated"
    /\ response.code = 503

C26_SleepsBetweenProbes ==
    /\ probes <= MaxRetries /\ sleeps <= probes
    /\ (pc = "done" /\ result.error = "not_available") =>
          (probes = MaxRetries /\ sleeps = MaxRetries - 1)

\* C27: when the backend finishes the submitted job and the stream never drops
\* once opened, process_job eventually returns, whatever the timing of the
\* backend's completion relative to the submission and the stream open.
C27_FinishedJobReturns ==
    (impl = "service" /\ backend = "done") ~> (pc = "done" \/ drops > 0)

\* C28: the artifacts of a success result of process_job are exactly the
\* references listed in the history whose fetch returned non-empty bytes, in
\* history order, one entry per reference; the result never holds an artifact
\* the job's history does not list.
C28_ArtifactsAreFetchedReferences ==
    (impl = "service" /\ pc = "done" /\ result.status = "success") =>
        /\ history >= 0 /\ Len(fetchLog) = history
        /\ Len(result.images) = Cardinality({k \in 1..Len(fetchLog) : fetchLog[k] = "bytes"})
        /\ \A i \in 1..Len(result.images) :
              /\ result.images[i].idx \in 1..history
              /\ fetchLog[result.images[i].idx] = "bytes"
              /\ \A j \in 1..Len(result.images) :
                    i < j => result.images[i].idx < result.images[j].idx

\* Of three references the second came back empty and the others with bytes.
C28_Witness ==
    /\ impl = "service" /\ pc = "done" /\ result.status = "success"
    /\ fetchLog = <<"bytes", "empty", "bytes">>
    /\ Len(result.images) = 2

====
